---------------------------- MODULE Spec2Model ----------------------------
(***************************************************************************)
(* Recommendation core of crop_fertilizer_suggester:                       *)
(*   src/src/soil_health_index.py    compute_soil_health                   *)
(*   src/src/fertilizer_rules.py     suggest_fertilizers                   *)
(*   src/src/recommendation_engine.py predict_fertilizer_ml,               *)
(*                                    build_final_recommendation           *)
(*                                                                         *)
(* Units.  Soil readings are decimal numbers; the model keeps them as      *)
(* integers: pH, organic carbon and EC in hundredths (6.5 is 650, 0.75 is  *)
(* 75, 0.8 is 80), nitrogen, phosphorus and potassium in whole units.      *)
(* Scores and the soil-health index are IEEE-754 doubles; the model keeps  *)
(* a double exactly, as a two-limb integer counting units of 2^-54.        *)
(***************************************************************************)
EXTENDS Integers, Sequences, FiniteSets, TLC

VARIABLES
    record,       \* the caller's soil/crop record (a dict)
    crop_arg,     \* the crop string the caller passes to suggest_fertilizers
    called,       \* which core function has been called on the record
    soil_health,  \* result of compute_soil_health
    rules_out,    \* result of suggest_fertilizers
    ml_env,       \* artifact files and behaviour of the loaded model objects
    ml_out,       \* result of predict_fertilizer_ml
    final,        \* result of build_final_recommendation
    config        \* the tables of config.py, shared by every call

vars == <<record, crop_arg, called, soil_health, rules_out, ml_env, ml_out, final,
          config>>

-----------------------------------------------------------------------------
(* Values held by a record key.                                            *)

AbsentV == [kind |-> "absent", v |-> 0, s |-> <<>>]
NoneV   == [kind |-> "none",   v |-> 0, s |-> <<>>]
NaNV    == [kind |-> "nan",    v |-> 0, s |-> <<>>]
Num(x)  == [kind |-> "num",    v |-> x, s |-> <<>>]
Str(cs) == [kind |-> "str",    v |-> 0, s |-> cs]

SoilKeys == {"pH", "organic_carbon", "nitrogen", "phosphorus", "potassium", "ec"}

\* config.SOIL_FEATURES + ["crop"]
INPUT_FEATURES ==
    {"pH", "organic_carbon", "nitrogen", "phosphorus", "potassium",
     "soil_type", "rainfall", "temperature", "ec", "crop"}

-----------------------------------------------------------------------------
(* IEEE-754 binary64 arithmetic on the values the scorer produces.         *)
(* A double d is <<hi, lo>> and stands for (hi * Limb + lo) * 2^-54.       *)
(* All scores lie in [0.25, 8), where a double is a multiple of 2^-54.     *)

Limb == 2^27

F0_3 == <<40265318, 53687091>>
F0_4 == <<53687091, 26843546>>
F0_5 == <<67108864, 0>>
F0_6 == <<80530636, 107374182>>
F0_7 == <<93952409, 80530636>>
F0_9 == <<120795955, 26843546>>
F1_0 == <<134217728, 0>>
FZero == <<0, 0>>

\* a >= b on doubles
FGe(a, b) == (a[1] > b[1]) \/ (a[1] = b[1] /\ a[2] >= b[2])

\* Spacing of doubles (in units of 2^-54) in the binade of the exact value x.
UlpOf(x) ==
    IF x[1] < 2^26 THEN 1
    ELSE IF x[1] < 2^27 THEN 2
    ELSE IF x[1] < 2^28 THEN 4
    ELSE IF x[1] < 2^29 THEN 8
    ELSE 16

\* Carry the low limb into the high limb.
Carry(hi, lo) == <<hi + (lo \div Limb), lo % Limb>>

\* Round the exact value x to the nearest double, ties to even.
RoundNearestEven(x) ==
    LET u    == UlpOf(x)
        r    == x[2] % u
        down == <<x[1], x[2] - r>>
        up   == Carry(x[1], x[2] - r + u)
        odd  == ((x[2] \div u) % 2) = 1
    IN  IF 2 * r < u THEN down
        ELSE IF 2 * r > u THEN up
        ELSE IF odd THEN up ELSE down

\* float.__add__
FAdd(a, b) == RoundNearestEven(Carry(a[1] + b[1], a[2] + b[2]))

\* float / int for a positive divisor n <= 6
FDivInt(a, n) ==
    LET u   == IF a[1] >= n * 2^26 THEN 2 ELSE 1  \* ulp of the quotient
        d   == n * u
        qh  == a[1] \div d
        t   == (a[1] % d) * Limb + a[2]
        ql  == t \div d
        rem == t % d
        q   == IF 2 * rem > d \/ (2 * rem = d /\ ql % 2 = 1)
               THEN Carry(qh, ql + 1) ELSE <<qh, ql>>
    IN  Carry(q[1] * u, q[2] * u)

\* sum(xs): Python starts from int 0 and adds left to right
RECURSIVE FSum(_)
FSum(xs) == IF xs = <<>> THEN FZero
            ELSE FAdd(FSum(SubSeq(xs, 1, Len(xs) - 1)), xs[Len(xs)])

-----------------------------------------------------------------------------
(* config.py tables                                                        *)

\* PH_BANDS[...][1], in hundredths of a pH unit
PhStronglyAcidicHi   == 550
PhModeratelyAcidicHi == 650
PhNeutralHi          == 750
PhSlightlyAlkalineHi == 850

\* SOIL_HEALTH_THRESHOLDS, the doubles 0.8, 0.6 and 0.4
ThrExcellent == <<107374182, 53687092>>
ThrGood      == F0_6
ThrModerate  == F0_4

-----------------------------------------------------------------------------
(* Input normalisation: pd.Series(dict) and row.get(key, None).            *)

\* dtype pandas infers for the Series built from the dict's values: one
\* string makes it object (None kept); numbers with None make it float64.
SeriesDtype(rec) ==
    IF \E k \in DOMAIN rec : rec[k].kind = "str" THEN "object"
    ELSE IF \E k \in DOMAIN rec : rec[k].kind = "num" THEN "float64"
    ELSE "object"

\* pd.Series(soil_data) for a dict: a float64 Series holds None as NaN.
NormalizeInput(rec) ==
    IF SeriesDtype(rec) = "float64"
    THEN [k \in DOMAIN rec |-> IF rec[k].kind = "none" THEN NaNV ELSE rec[k]]
    ELSE rec

\* A container other than a dict is a record with the fields container
\* ("DataFrame", "Series" or another type name) and rows (the rows of a
\* DataFrame, or the one row a Series is).
IsDict(soil_data) == "container" \notin DOMAIN soil_data

Normalized(row) == [raised |-> "", row |-> row]

\* a normalisation that takes the first row without counting the rows
NormalizeFirstRow(soil_data) ==
    IF IsDict(soil_data) THEN Normalized(NormalizeInput(soil_data))
    ELSE IF soil_data.container = "DataFrame" THEN
        IF Len(soil_data.rows) = 0 THEN [raised |-> "IndexError"]
        ELSE Normalized(soil_data.rows[1])
    ELSE IF soil_data.container = "Series" THEN Normalized(soil_data.rows[1])
    ELSE [raised |-> "TypeError"]

\* _normalize_input, and the same test at the head of compute_soil_health:
\* .iloc[0] and a Series keep the cells as the caller's pandas object holds them
_normalize_input(soil_data) ==
    IF IsDict(soil_data) THEN Normalized(NormalizeInput(soil_data))
    ELSE IF soil_data.container = "DataFrame" THEN
        IF Len(soil_data.rows) # 1 THEN [raised |-> "ValueError"]
        ELSE Normalized(soil_data.rows[1])
    ELSE IF soil_data.container = "Series" THEN Normalized(soil_data.rows[1])
    ELSE [raised |-> "TypeError"]

\* row.get(key, None)
Get(row, key) == IF row[key].kind = "absent" THEN NoneV ELSE row[key]

IsNone(x) == x.kind = "none"

\* a comparison written <= instead of <
LtOrEq(x, c) == x.kind = "num" /\ x.v <= c

\* x < c for a reading x and a literal c: every comparison with NaN is False
Lt(x, c) == x.kind = "num" /\ x.v < c

-----------------------------------------------------------------------------
(* soil_health_index.py: the six factor scorers                            *)

ScoreOcLow    == 50
ScoreOcMedium == 75
ScoreOcGood   == 150
ScoreNLow     == 50
ScoreNHigh    == 150
ScorePLow     == 15
ScorePHigh    == 60
ScoreKLow     == 50
ScoreKHigh    == 200
ScoreEcNonSaline == 80
ScoreEcSlight    == 200

FS(sc, lv) == [score |-> sc, level |-> lv]

_score_ph(pH) ==
    IF IsNone(pH) THEN FS(F0_5, "unknown")
    ELSE IF Lt(pH, config.PH_BANDS.strongly_acidic) THEN FS(F0_3, "strongly acidic")
    ELSE IF Lt(pH, config.PH_BANDS.moderately_acidic) THEN FS(F0_7, "moderately acidic")
    ELSE IF Lt(pH, config.PH_BANDS.neutral) THEN FS(F1_0, "near neutral")
    ELSE IF Lt(pH, config.PH_BANDS.slightly_alkaline) THEN FS(F0_7, "slightly alkaline")
    ELSE FS(F0_3, "strongly alkaline")

_score_organic_carbon(oc) ==
    IF IsNone(oc) THEN FS(F0_5, "unknown")
    ELSE IF Lt(oc, ScoreOcLow) THEN FS(F0_4, "low")
    ELSE IF Lt(oc, ScoreOcMedium) THEN FS(F0_7, "medium")
    ELSE IF Lt(oc, ScoreOcGood) THEN FS(F1_0, "good")
    ELSE FS(F0_9, "very high")

_score_n(n) ==
    IF IsNone(n) THEN FS(F0_5, "unknown")
    ELSE IF Lt(n, ScoreNLow) THEN FS(F0_4, "low")
    ELSE IF Lt(n, ScoreNHigh) THEN FS(F1_0, "adequate")
    ELSE FS(F0_6, "high")

_score_p(p) ==
    IF IsNone(p) THEN FS(F0_5, "unknown")
    ELSE IF Lt(p, ScorePLow) THEN FS(F0_4, "low")
    ELSE IF Lt(p, ScorePHigh) THEN FS(F1_0, "adequate")
    ELSE FS(F0_6, "high")

\* the potassium scorer with the high score of the nitrogen scorer
_score_k_high_as_n(k) ==
    IF IsNone(k) THEN FS(F0_5, "unknown")
    ELSE IF Lt(k, ScoreKLow) THEN FS(F0_4, "low")
    ELSE IF Lt(k, ScoreKHigh) THEN FS(F1_0, "adequate")
    ELSE FS(F0_6, "high")


_score_k(k) ==
    IF IsNone(k) THEN FS(F0_5, "unknown")
    ELSE IF Lt(k, ScoreKLow) THEN FS(F0_4, "low")
    ELSE IF Lt(k, ScoreKHigh) THEN FS(F1_0, "adequate")
    ELSE FS(F0_7, "high")

_score_ec(ec) ==
    IF IsNone(ec) THEN FS(F0_5, "unknown")
    ELSE IF Lt(ec, ScoreEcNonSaline) THEN FS(F1_0, "non-saline")
    ELSE IF Lt(ec, ScoreEcSlight) THEN FS(F0_7, "slightly saline")
    ELSE FS(F0_3, "saline")

_categorize_soil_health(index) ==
    IF FGe(index, config.SOIL_HEALTH_THRESHOLDS.excellent) THEN "Excellent"
    ELSE IF FGe(index, config.SOIL_HEALTH_THRESHOLDS.good) THEN "Good"
    ELSE IF FGe(index, config.SOIL_HEALTH_THRESHOLDS.moderate) THEN "Moderate"
    ELSE "Poor"

\* dict order of factor_scores
FactorOrder == <<"pH", "organic_carbon", "nitrogen", "phosphorus", "potassium", "ec">>

\* compute_soil_health(soil_data)
compute_soil_health(soil_data) ==
    LET nrm == _normalize_input(soil_data)
        row == nrm.row
        factor_scores ==
            [pH             |-> _score_ph(Get(row, "pH")),
             organic_carbon |-> _score_organic_carbon(Get(row, "organic_carbon")),
             nitrogen       |-> _score_n(Get(row, "nitrogen")),
             phosphorus     |-> _score_p(Get(row, "phosphorus")),
             potassium      |-> _score_k(Get(row, "potassium")),
             ec             |-> _score_ec(Get(row, "ec"))]
        numeric_scores == [i \in 1..6 |-> factor_scores[FactorOrder[i]].score]
        index == FDivInt(FSum(numeric_scores), Len(numeric_scores))
    IN  IF nrm.raised # "" THEN [raised |-> nrm.raised] ELSE
        [raised        |-> "",
         index         |-> index,
         category      |-> _categorize_soil_health(index),
         factor_scores |-> factor_scores]

-----------------------------------------------------------------------------
(* Strings: a str is a sequence of one-character strings.                  *)

UpperCase == <<"A","B","C","D","E","F","G","H","I","J","K","L","M",
               "N","O","P","Q","R","S","T","U","V","W","X","Y","Z">>
LowerCase == <<"a","b","c","d","e","f","g","h","i","j","k","l","m",
               "n","o","p","q","r","s","t","u","v","w","x","y","z">>

LowerChar(c) ==
    IF \E i \in 1..26 : UpperCase[i] = c
    THEN LowerCase[CHOOSE i \in 1..26 : UpperCase[i] = c]
    ELSE c

\* str.lower()
Lower(s) == [i \in 1..Len(s) |-> LowerChar(s[i])]

IsSpace(c) == c = " "

\* str.strip()
RECURSIVE Strip(_)
Strip(s) ==
    IF s = <<>> THEN s
    ELSE IF IsSpace(s[1]) THEN Strip(Tail(s))
    ELSE IF IsSpace(s[Len(s)]) THEN Strip(SubSeq(s, 1, Len(s) - 1))
    ELSE s

\* kw in s
Contains(s, kw) ==
    \E i \in 0..(Len(s) - Len(kw)) : SubSeq(s, i + 1, i + Len(kw)) = kw

\* str(x) for the values a crop key holds
StrOf(x) ==
    CASE x.kind = "str"  -> x.s
      [] x.kind = "none" -> <<"N","o","n","e">>

-----------------------------------------------------------------------------
(* fertilizer_rules.py: classifiers                                        *)

StatusNLow  == 50
StatusNHigh == 150
StatusPLow  == 15
StatusPHigh == 60
StatusKLow  == 50
StatusKHigh == 200

_status_n(n) ==
    IF IsNone(n) THEN "unknown"
    ELSE IF Lt(n, StatusNLow) THEN "low"
    ELSE IF Lt(n, StatusNHigh) THEN "adequate"
    ELSE "high"

_status_p(p) ==
    IF IsNone(p) THEN "unknown"
    ELSE IF Lt(p, StatusPLow) THEN "low"
    ELSE IF Lt(p, StatusPHigh) THEN "adequate"
    ELSE "high"

\* a potassium classifier that took over the phosphorus cut points
_status_k_with_p_cuts(k) ==
    IF IsNone(k) THEN "unknown"
    ELSE IF Lt(k, StatusPLow) THEN "low"
    ELSE IF Lt(k, StatusPHigh) THEN "adequate"
    ELSE "high"

_status_k(k) ==
    IF IsNone(k) THEN "unknown"
    ELSE IF Lt(k, StatusKLow) THEN "low"
    ELSE IF Lt(k, StatusKHigh) THEN "adequate"
    ELSE "high"

_ph_band_label(pH) ==
    IF IsNone(pH) THEN "unknown"
    ELSE IF Lt(pH, config.PH_BANDS.strongly_acidic) THEN "strongly_acidic"
    ELSE IF Lt(pH, config.PH_BANDS.moderately_acidic) THEN "moderately_acidic"
    ELSE IF Lt(pH, config.PH_BANDS.neutral) THEN "neutral"
    ELSE IF Lt(pH, config.PH_BANDS.slightly_alkaline) THEN "slightly_alkaline"
    ELSE "strongly_alkaline"

-----------------------------------------------------------------------------
(* fertilizer_rules.py: the rule groups.  A reason text is kept by a tag.  *)

Rec(nm, pr, rs) == [name |-> nm, priority |-> pr, reason |-> rs]

AcidicBands   == {"strongly_acidic", "moderately_acidic"}
AlkalineBands == {"slightly_alkaline", "strongly_alkaline"}

\* a nitrogen group that offers the acid-forming alternative on alkaline
\* soils instead of acidic ones
NRecsAlternativeOnAlkaline(n_status, ph_band) ==
    IF n_status = "low" THEN
        IF ph_band \in AlkalineBands
        THEN <<Rec("Urea", 1, "n_low_alkaline_urea_incorporate"),
               Rec("Ammonium Sulphate", 2, "n_low_acidic_ammonium_sulphate")>>
        ELSE IF ph_band \in AcidicBands
        THEN <<Rec("Urea", 1, "n_low_acidic_urea")>>
        ELSE <<Rec("Urea", 1, "n_low_neutral_urea")>>
    ELSE IF n_status = "adequate" THEN <<Rec("Urea", 3, "n_adequate_urea_maintenance")>>
    ELSE IF n_status = "high" THEN <<Rec("FYM", 4, "n_high_fym")>>
    ELSE <<>>

_base_n_recommendations(n_status, ph_band) ==
    IF n_status = "low" THEN
        IF ph_band \in AcidicBands
        THEN <<Rec("Urea", 1, "n_low_acidic_urea"),
               Rec("Ammonium Sulphate", 2, "n_low_acidic_ammonium_sulphate")>>
        ELSE IF ph_band \in AlkalineBands
        THEN <<Rec("Urea", 1, "n_low_alkaline_urea_incorporate")>>
        ELSE <<Rec("Urea", 1, "n_low_neutral_urea")>>
    ELSE IF n_status = "adequate" THEN <<Rec("Urea", 3, "n_adequate_urea_maintenance")>>
    ELSE IF n_status = "high" THEN <<Rec("FYM", 4, "n_high_fym")>>
    ELSE <<>>

\* a phosphorus group that lists the complex source ahead of the
\* acid-suited one
PRecsComplexFirst(p_status, ph_band) ==
    IF p_status = "low" THEN
        IF ph_band \in AcidicBands
        THEN <<Rec("DAP", 1, "p_low_acidic_dap"),
               Rec("SSP", 2, "p_low_acidic_ssp")>>
        ELSE IF ph_band \in AlkalineBands
        THEN <<Rec("DAP", 1, "p_low_alkaline_dap_placed")>>
        ELSE <<Rec("DAP", 1, "p_low_neutral_dap")>>
    ELSE IF p_status = "adequate" THEN <<Rec("DAP", 3, "p_adequate_dap_starter")>>
    ELSE IF p_status = "high" THEN <<Rec("FYM", 4, "p_high_fym")>>
    ELSE <<>>

_base_p_recommendations(p_status, ph_band) ==
    IF p_status = "low" THEN
        IF ph_band \in AcidicBands
        THEN <<Rec("SSP", 1, "p_low_acidic_ssp"),
               Rec("DAP", 2, "p_low_acidic_dap")>>
        ELSE IF ph_band \in AlkalineBands
        THEN <<Rec("DAP", 1, "p_low_alkaline_dap_placed")>>
        ELSE <<Rec("DAP", 1, "p_low_neutral_dap")>>
    ELSE IF p_status = "adequate" THEN <<Rec("DAP", 3, "p_adequate_dap_starter")>>
    ELSE IF p_status = "high" THEN <<Rec("FYM", 4, "p_high_fym")>>
    ELSE <<>>

_base_k_recommendations(k_status) ==
    IF k_status = "low" THEN <<Rec("MOP", 1, "k_low_mop")>>
    ELSE IF k_status = "adequate" THEN <<Rec("MOP", 3, "k_adequate_mop_maintenance")>>
    ELSE IF k_status = "high" THEN <<Rec("FYM", 4, "k_high_fym")>>
    ELSE <<>>

OrganicCutoff == 75

\* an organic group whose cutoff takes the value 0.75 itself as low
OrganicCutoffInclusive(oc) ==
    IF IsNone(oc) \/ LtOrEq(oc, OrganicCutoff)
    THEN <<Rec("FYM", 1, "oc_low_fym"), Rec("Vermicompost", 2, "oc_low_vermicompost")>>
    ELSE <<Rec("Biofertilizer", 3, "oc_good_biofertilizer")>>

_organic_and_bio_recommendations(oc) ==
    IF IsNone(oc) \/ Lt(oc, OrganicCutoff)
    THEN <<Rec("FYM", 1, "oc_low_fym"), Rec("Vermicompost", 2, "oc_low_vermicompost")>>
    ELSE <<Rec("Biofertilizer", 3, "oc_good_biofertilizer")>>

KwRice      == <<"r","i","c","e">>
KwPulse     == <<"p","u","l","s","e">>
KwGram      == <<"g","r","a","m">>
KwLentil    == <<"l","e","n","t","i","l">>
KwPea       == <<"p","e","a">>
KwVegetable == <<"v","e","g","e","t","a","b","l","e">>
KwSugarcane == <<"s","u","g","a","r","c","a","n","e">>
VegetableNames ==
    {<<"t","o","m","a","t","o">>, <<"p","o","t","a","t","o">>,
     <<"c","h","i","l","l","i">>, <<"b","r","i","n","j","a","l">>}

_crop_specific_adjustments(crop_in, npk_status) ==
    LET crop == Lower(Strip(crop_in))
        rice == IF Contains(crop, KwRice)
                THEN <<Rec("Urea", 1, "crop_rice_urea")>> \o
                     (IF npk_status.K = "low"
                      THEN <<Rec("MOP", 2, "crop_rice_mop")>> ELSE <<>>)
                ELSE <<>>
        pulse == IF Contains(crop, KwPulse) \/ Contains(crop, KwGram)
                    \/ Contains(crop, KwLentil) \/ Contains(crop, KwPea)
                 THEN <<Rec("Biofertilizer", 1, "crop_pulse_biofertilizer")>> \o
                      (IF npk_status.P = "low"
                       THEN <<Rec("DAP", 2, "crop_pulse_dap")>> ELSE <<>>)
                 ELSE <<>>
        veg == IF Contains(crop, KwVegetable) \/ crop \in VegetableNames
               THEN <<Rec("NPK_17_17_17", 1, "crop_vegetable_npk"),
                      Rec("Vermicompost", 2, "crop_vegetable_vermicompost")>>
               ELSE <<>>
        cane == IF Contains(crop, KwSugarcane)
                THEN <<Rec("MOP", 1, "crop_sugarcane_mop"),
                       Rec("Urea", 2, "crop_sugarcane_urea")>>
                ELSE <<>>
    IN  rice \o pulse \o veg \o cane

-----------------------------------------------------------------------------
(* fertilizer_rules.py: suggest_fertilizers                                *)

\* config.FERTILIZER_NUTRIENT_PROFILE as config.py defines it, percentages in tenths
FERTILIZER_NUTRIENT_PROFILE ==
    [n \in {"Urea", "Ammonium Sulphate", "DAP", "SSP", "MOP", "NPK_17_17_17",
            "NPK_20_20_0", "FYM", "Vermicompost"} |->
        CASE n = "Urea"              -> [N |-> 460, P |-> 0,   K |-> 0,   type |-> "Nitrogenous"]
          [] n = "Ammonium Sulphate" -> [N |-> 210, P |-> 0,   K |-> 0,   S |-> 240, type |-> "Nitrogenous"]
          [] n = "DAP"               -> [N |-> 180, P |-> 460, K |-> 0,   type |-> "Phosphatic"]
          [] n = "SSP"               -> [N |-> 0,   P |-> 160, K |-> 0,   S |-> 120, type |-> "Phosphatic"]
          [] n = "MOP"               -> [N |-> 0,   P |-> 0,   K |-> 600, type |-> "Potassic"]
          [] n = "NPK_17_17_17"      -> [N |-> 170, P |-> 170, K |-> 170, type |-> "NPK_Complex"]
          [] n = "NPK_20_20_0"       -> [N |-> 200, P |-> 200, K |-> 0,   type |-> "NPK_Complex"]
          [] n = "FYM"               -> [N |-> 5,   P |-> 2,   K |-> 5,   type |-> "Organic_Manure"]
          [] n = "Vermicompost"      -> [N |-> 15,  P |-> 9,   K |-> 12,  type |-> "Organic_Manure"]]

\* the {} default of FERTILIZER_NUTRIENT_PROFILE.get(fert_name, {})
EmptyProfile == [k \in {} |-> 0]

\* a lookup without the {} default: None for a name the table lacks
ProfileOrNone(fert_name) ==
    IF fert_name \in DOMAIN config.FERTILIZER_NUTRIENT_PROFILE
    THEN config.FERTILIZER_NUTRIENT_PROFILE[fert_name]
    ELSE [none |-> TRUE]

\* FERTILIZER_NUTRIENT_PROFILE.get(fert_name, {})
ProfileOf(fert_name) ==
    IF fert_name \in DOMAIN config.FERTILIZER_NUTRIENT_PROFILE
    THEN config.FERTILIZER_NUTRIENT_PROFILE[fert_name]
    ELSE EmptyProfile

Min(a, b) == IF a < b THEN a ELSE b

\* index of name in the insertion-ordered dict `combined`, 0 when new
IndexOfName(combined, name) ==
    IF \E i \in 1..Len(combined) : combined[i].name = name
    THEN CHOOSE i \in 1..Len(combined) : combined[i].name = name
    ELSE 0

\* a merge that keeps the priority first seen
MergeOneKeepFirst(combined, r) ==
    LET i == IndexOfName(combined, r.name)
    IN  IF i = 0
        THEN Append(combined,
                    [name |-> r.name, priority |-> r.priority, reasons |-> <<r.reason>>])
        ELSE [combined EXCEPT ![i] =
                [name     |-> @.name,
                 priority |-> @.priority,
                 reasons  |-> Append(@.reasons, r.reason)]]

\* one iteration of `for r in recs` (lines 447-462)
MergeOne(combined, r) ==
    LET i == IndexOfName(combined, r.name)
    IN  IF i = 0
        THEN Append(combined,
                    [name |-> r.name, priority |-> r.priority, reasons |-> <<r.reason>>])
        ELSE [combined EXCEPT ![i] =
                [name     |-> @.name,
                 priority |-> Min(@.priority, r.priority),
                 reasons  |-> Append(@.reasons, r.reason)]]

\* the merge loop over recs, in order
RECURSIVE MergeRecs(_)
MergeRecs(recs) ==
    IF recs = <<>> THEN <<>>
    ELSE MergeOne(MergeRecs(SubSeq(recs, 1, Len(recs) - 1)), recs[Len(recs)])

\* an insertion that puts x in front of the elements of equal key
RECURSIVE InsertBeforeEqual(_, _)
InsertBeforeEqual(sorted, x) ==
    IF sorted = <<>> THEN <<x>>
    ELSE IF sorted[Len(sorted)].priority < x.priority THEN Append(sorted, x)
    ELSE Append(InsertBeforeEqual(SubSeq(sorted, 1, Len(sorted) - 1), x),
                sorted[Len(sorted)])

\* insert x behind every element whose key is <= x's key
RECURSIVE InsertByPriority(_, _)
InsertByPriority(sorted, x) ==
    IF sorted = <<>> THEN <<x>>
    ELSE IF sorted[Len(sorted)].priority <= x.priority THEN Append(sorted, x)
    ELSE Append(InsertByPriority(SubSeq(sorted, 1, Len(sorted) - 1), x),
                sorted[Len(sorted)])

\* list.sort(key=priority): ascending and stable
RECURSIVE SortByPriority(_)
SortByPriority(xs) ==
    IF xs = <<>> THEN <<>>
    ELSE InsertByPriority(SortByPriority(SubSeq(xs, 1, Len(xs) - 1)), xs[Len(xs)])

\* lines 464-473: attach the nutrient profile to each merged entry
WithNutrients(combined) ==
    [i \in 1..Len(combined) |->
        [name      |-> combined[i].name,
         priority  |-> combined[i].priority,
         reasons   |-> combined[i].reasons,
         nutrients |-> ProfileOf(combined[i].name)]]

\* the groups collected with the phosphorus group ahead of the nitrogen group
CollectRecsPFirst(n_status, p_status, k_status, ph_band, oc, crop) ==
    _base_p_recommendations(p_status, ph_band)
    \o _base_n_recommendations(n_status, ph_band)
    \o _base_k_recommendations(k_status)
    \o _organic_and_bio_recommendations(oc)
    \o _crop_specific_adjustments(crop, [N |-> n_status, P |-> p_status, K |-> k_status])

\* lines 437-443: the emissions of the five rule groups, in firing order
CollectRecs(n_status, p_status, k_status, ph_band, oc, crop) ==
    _base_n_recommendations(n_status, ph_band)
    \o _base_p_recommendations(p_status, ph_band)
    \o _base_k_recommendations(k_status)
    \o _organic_and_bio_recommendations(oc)
    \o _crop_specific_adjustments(crop, [N |-> n_status, P |-> p_status, K |-> k_status])

\* lines 482-491: the warnings
Warnings(n_status, p_status) ==
    (IF n_status = "high" THEN <<"warn_n_high">> ELSE <<>>)
    \o (IF p_status = "high" THEN <<"warn_p_high">> ELSE <<>>)

\* notes that open with the disclaimer
NotesDisclaimerFirst(k_status, ph_band) ==
    <<"note_local_calibration">>
    \o (IF k_status = "high" THEN <<"note_k_high">> ELSE <<>>)
    \o (IF ph_band \in AcidicBands THEN <<"note_acidic">> ELSE <<>>)
    \o (IF ph_band \in AlkalineBands THEN <<"note_alkaline">> ELSE <<>>)

\* lines 492-512: the notes, the disclaimer last
Notes(k_status, ph_band) ==
    (IF k_status = "high" THEN <<"note_k_high">> ELSE <<>>)
    \o (IF ph_band \in AcidicBands THEN <<"note_acidic">> ELSE <<>>)
    \o (IF ph_band \in AlkalineBands THEN <<"note_alkaline">> ELSE <<>>)
    \o <<"note_local_calibration">>

\* suggest_fertilizers(soil_data, crop) for a str crop
suggest_fertilizers(soil_data, crop) ==
    LET nrm      == _normalize_input(soil_data)
        row      == nrm.row
        n_status == _status_n(Get(row, "nitrogen"))
        p_status == _status_p(Get(row, "phosphorus"))
        k_status == _status_k(Get(row, "potassium"))
        ph_band  == _ph_band_label(Get(row, "pH"))
        recs     == CollectRecs(n_status, p_status, k_status, ph_band,
                                Get(row, "organic_carbon"), crop)
    IN  IF nrm.raised # "" THEN [raised |-> nrm.raised] ELSE
        [raised     |-> "",
         npk_status |-> [N |-> n_status, P |-> p_status, K |-> k_status],
         ph_band    |-> ph_band,
         primary_recommendations |-> SortByPriority(WithNutrients(MergeRecs(recs))),
         warnings   |-> Warnings(n_status, p_status),
         notes      |-> Notes(k_status, ph_band)]

-----------------------------------------------------------------------------
(* recommendation_engine.py: predict_fertilizer_ml                         *)
(*                                                                         *)
(* env describes what lies outside the function: the two artifact files    *)
(* ("missing", "corrupt" or "ok") and what the loaded objects do when      *)
(* called: transform ("ok" or "raise"), predict ("raise" or "ok" with the  *)
(* label it returns) and predict_proba ("absent", "ok", "raise", or        *)
(* "no_classes" when the model has no classes_).                           *)

\* joblib.load(path): the exception it raises, "" when it returns
LoadError(file) ==
    CASE file = "missing" -> "FileNotFoundError"
      [] file = "corrupt" -> "UnpicklingError"
      [] file = "ok"      -> ""

\* a load with no except clause at all
TryLoadUnguarded(file) ==
    IF LoadError(file) = "" THEN "loaded" ELSE "propagates"

\* load_model() / load_preprocessor() under `except FileNotFoundError`:
\* "caught", "propagates" or "loaded"
TryLoad(file) ==
    IF LoadError(file) = "" THEN "loaded"
    ELSE IF LoadError(file) = "FileNotFoundError" THEN "caught"
    ELSE "propagates"

\* a key test over the soil features only, the crop forgotten
MissingSoilKeys(input_data) ==
    {k \in INPUT_FEATURES \ {"crop"} : input_data[k].kind = "absent"}

\* build_input_dataframe_from_dict: the keys of INPUT_FEATURES not in the dict
MissingKeys(input_data) == {k \in INPUT_FEATURES : input_data[k].kind = "absent"}

\* an unavailable result that drops its message
UnavailableSilent(msg) ==
    [raised |-> "", available |-> FALSE, predicted_fertilizer |-> "",
     has_label |-> FALSE, probabilities |-> {}, has_probabilities |-> FALSE,
     message |-> ""]


Unavailable(msg) ==
    [raised |-> "", available |-> FALSE, predicted_fertilizer |-> "",
     has_label |-> FALSE, probabilities |-> {}, has_probabilities |-> FALSE,
     message |-> msg]

Raised(exc) ==
    [raised |-> exc, available |-> FALSE, predicted_fertilizer |-> "",
     has_label |-> FALSE, probabilities |-> {}, has_probabilities |-> FALSE,
     message |-> ""]

\* a probability mapping that keeps the predicted class only
ProbDictTopOnly(env) ==
    IF env.proba = "ok" THEN {env.label} ELSE {}

\* lines 130-141: the keys of prob_dict, one per class of the model
ProbDict(env) ==
    IF env.proba = "ok" THEN env.classes ELSE {}

HasProbDict(env) == env.proba = "ok"

predict_fertilizer_ml(input_data, env) ==
    IF TryLoad(env.model_file) = "caught" THEN Unavailable("ML model file not found")
    ELSE IF TryLoad(env.model_file) = "propagates" THEN Raised(LoadError(env.model_file))
    ELSE IF TryLoad(env.scaler_file) = "caught" THEN Unavailable("Preprocessor file not found")
    ELSE IF TryLoad(env.scaler_file) = "propagates" THEN Raised(LoadError(env.scaler_file))
    ELSE IF MissingKeys(input_data) # {} THEN Unavailable("Invalid input for ML model")
    ELSE IF env.transform = "raise" THEN Unavailable("Error while transforming features")
    ELSE IF env.predict = "raise" THEN Unavailable("Error during ML prediction")
    ELSE [raised |-> "", available |-> TRUE,
          predicted_fertilizer |-> env.label, has_label |-> TRUE,
          probabilities |-> ProbDict(env), has_probabilities |-> HasProbDict(env),
          message |-> ""]

-----------------------------------------------------------------------------
(* recommendation_engine.py: build_final_recommendation                    *)

Line(t, x) == [t |-> t, x |-> x]

ReasonLines(reasons) == [i \in 1..Len(reasons) |-> Line("reason", reasons[i])]

\* a match loop that looks at the top candidate only
RuleMatchTopOnly(recs, ml_name) ==
    IF recs # <<>> /\ recs[1].name = ml_name THEN 1 ELSE 0

\* lines 210-214: the first rule candidate named ml_name, 0 when none
RuleMatch(recs, ml_name) ==
    IF \E i \in 1..Len(recs) : recs[i].name = ml_name
    THEN CHOOSE i \in 1..Len(recs) :
            recs[i].name = ml_name /\ \A j \in 1..(i - 1) : recs[j].name # ml_name
    ELSE 0

NoName   == [is_none |-> TRUE, s |-> ""]
\* a final name that is never assigned
NameNeverSet(nm) == [is_none |-> TRUE, s |-> ""]


Name(nm) == [is_none |-> FALSE, s |-> nm]

\* a test that forgets the empty label
MlUsableAnyLabel(ml) == ml.available

\* ml_out.get("available", False) and ml_out.get("predicted_fertilizer")
MlUsable(ml) == ml.available /\ ml.has_label /\ ml.predicted_fertilizer # ""

\* lines 200-261: name, source and the decision lines
Decide(rules, ml) ==
    LET recs == rules.primary_recommendations
    IN  IF MlUsable(ml) THEN
            LET ml_name == ml.predicted_fertilizer
                m == RuleMatch(recs, ml_name)
            IN  IF m # 0
                THEN [name |-> Name(ml_name), source |-> "ml+rules",
                      lines |-> <<Line("ml_predicts", ml_name), Line("rules_also_support", "")>>
                                \o ReasonLines(recs[m].reasons)]
                ELSE [name |-> Name(ml_name), source |-> "ml_only",
                      lines |-> <<Line("ml_predicts_from_patterns", ml_name),
                                  Line("rules_no_match", "")>>]
        ELSE IF recs # <<>>
        THEN [name |-> Name(recs[1].name), source |-> "rules_only",
              lines |-> <<Line("rules_select", recs[1].name)>> \o ReasonLines(recs[1].reasons)]
        ELSE [name |-> NoName, source |-> "none",
              lines |-> <<Line("no_recommendation", "")>>]

\* trailing lines with the note put before the soil-health line
TrailingLinesNoteFirst(sh, ml) ==
    (IF ~ml.available /\ ml.message # "" THEN <<Line("note", ml.message)>> ELSE <<>>)
    \o <<Line("soil_health", sh.category)>>

\* lines 263-276: the soil-health line and the predictor's note
TrailingLines(sh, ml) ==
    <<Line("soil_health", sh.category)>>
    \o (IF ~ml.available /\ ml.message # "" THEN <<Line("note", ml.message)>> ELSE <<>>)

\* str(input_copy.get("crop", "")).strip()
CropOf(input_copy) ==
    IF input_copy["crop"].kind = "absent" THEN <<>>
    ELSE Strip(StrOf(input_copy["crop"]))

FinalRaised(exc) ==
    [raised |-> exc, input |-> <<>>, soil_health |-> <<>>, rules |-> <<>>, ml |-> <<>>,
     final_choice |-> [name |-> NoName, source |-> "", rationale |-> <<>>]]

build_final_recommendation(input_data, env) ==
    LET input_copy == input_data
        crop == CropOf(input_copy)
        sh == compute_soil_health(input_copy)
        rules == suggest_fertilizers(input_copy, crop)
        ml == predict_fertilizer_ml(input_copy, env)
        d == Decide(rules, ml)
    IN  IF ml.raised # "" THEN FinalRaised(ml.raised)
        ELSE [raised |-> "", input |-> input_copy, soil_health |-> sh,
              rules |-> rules, ml |-> ml,
              final_choice |-> [name |-> d.name, source |-> d.source,
                                rationale |-> d.lines \o TrailingLines(sh, ml)]]

-----------------------------------------------------------------------------
(* Inputs.                                                                 *)

Nums(S) == {Num(x) : x \in S}

\* one reading inside each band of each factor
PhMid == Nums({500, 600, 700, 800, 900})
OcMid == Nums({30, 60, 100, 200})
NMid  == Nums({40, 100, 160})
PMid  == Nums({12, 30, 70})
KMid  == Nums({40, 150, 250})
EcMid == Nums({50, 100, 250})

CropRice == <<"R","i","c","e">>
CropWheat == <<"W","h","e","a","t">>
CropMaize == <<"M","a","i","z","e">>
CropSugarcane == <<"S","u","g","a","r","c","a","n","e">>
CropCotton == <<"C","o","t","t","o","n">>
CropPulses == <<"P","u","l","s","e","s">>
CropVegetables == <<"V","e","g","e","t","a","b","l","e","s">>
CropFruits == <<"F","r","u","i","t","s">>
CropRicePadded == <<" ","r","i","c","e"," ">>
CropRiceUpper == <<"R","I","C","E">>
CropTomato == <<"T","o","m","a","t","o">>
CropCherryTomato == <<"C","h","e","r","r","y"," ","t","o","m","a","t","o">>
CropGreenGram == <<"G","r","e","e","n"," ","g","r","a","m">>
CropEmpty == <<>>

\* config.SUPPORTED_CROPS
SUPPORTED_CROPS == {CropRice, CropWheat, CropMaize, CropSugarcane, CropCotton,
                    CropPulses, CropVegetables, CropFruits}

Crops == SUPPORTED_CROPS \cup {CropRicePadded, CropRiceUpper, CropTomato,
                               CropCherryTomato, CropGreenGram, CropEmpty}

MkRecord(pH, oc, n, p, k, ec, crop, st, rf, tp) ==
    [pH |-> pH, organic_carbon |-> oc, nitrogen |-> n, phosphorus |-> p,
     potassium |-> k, ec |-> ec, crop |-> crop,
     soil_type |-> st, rainfall |-> rf, temperature |-> tp]

\* a record of the six soil readings, with or without the crop name
SoilRecord(pH, oc, n, p, k, ec, crop) ==
    MkRecord(pH, oc, n, p, k, ec, crop, AbsentV, AbsentV, AbsentV)

\* the all-optimal record: pH 7.0, OC 1.0, N 100, P 30, K 150, EC 0.5
BasePh == Num(700)
BaseOc == Num(100)
BaseN  == Num(100)
BaseP  == Num(30)
BaseK  == Num(150)
BaseEc == Num(50)

CropChoices == {AbsentV, Str(CropRice)}

\* every combination of bands, a missing reading included
BandRecords ==
    {SoilRecord(pH, oc, n, p, k, ec, AbsentV) :
        pH \in PhMid \cup {AbsentV}, oc \in OcMid \cup {AbsentV},
        n \in NMid \cup {AbsentV}, p \in PMid \cup {AbsentV},
        k \in KMid \cup {AbsentV}, ec \in EcMid \cup {AbsentV}}

\* every subset of the factors absent or null
MissingRecords ==
    {SoilRecord(pH, oc, n, p, k, ec, c) :
        pH \in {BasePh, NoneV, AbsentV}, oc \in {BaseOc, NoneV, AbsentV},
        n \in {BaseN, NoneV, AbsentV}, p \in {BaseP, NoneV, AbsentV},
        k \in {BaseK, NoneV, AbsentV}, ec \in {BaseEc, NoneV, AbsentV},
        c \in CropChoices}

\* the ranges readings are swept over (pH 3.5 to 10)
PhLo == 350
PhHi == 1000
OcHi == 200
NHi  == 200
PHi  == 100
KHi  == 250
EcHi == 300

\* one factor swept over its range, the others optimal
SweepRecords ==
    {SoilRecord(Num(x), BaseOc, BaseN, BaseP, BaseK, BaseEc, AbsentV) : x \in PhLo..PhHi}
    \cup {SoilRecord(BasePh, Num(x), BaseN, BaseP, BaseK, BaseEc, AbsentV) : x \in 0..OcHi}
    \cup {SoilRecord(BasePh, BaseOc, Num(x), BaseP, BaseK, BaseEc, AbsentV) : x \in 0..NHi}
    \cup {SoilRecord(BasePh, BaseOc, BaseN, Num(x), BaseK, BaseEc, AbsentV) : x \in 0..PHi}
    \cup {SoilRecord(BasePh, BaseOc, BaseN, BaseP, Num(x), BaseEc, AbsentV) : x \in 0..KHi}
    \cup {SoilRecord(BasePh, BaseOc, BaseN, BaseP, BaseK, Num(x), AbsentV) : x \in 0..EcHi}

\* what the artifacts can be; stages behind a failing one keep their default
DefaultEnv ==
    [model_file |-> "missing", scaler_file |-> "missing", transform |-> "ok",
     predict |-> "ok", label |-> "Urea", proba |-> "absent",
     classes |-> {"Urea", "DAP", "NPK_20_20_0"}]

\* labels a trained model can answer with
ModelLabels == {"Urea", "DAP", "NPK_20_20_0", ""}

MlEnvs ==
    {[DefaultEnv EXCEPT !.model_file = m] : m \in {"missing", "corrupt"}}
    \cup {[DefaultEnv EXCEPT !.model_file = "ok", !.scaler_file = f] :
            f \in {"missing", "corrupt"}}
    \cup {[DefaultEnv EXCEPT !.model_file = "ok", !.scaler_file = "ok",
                             !.transform = "raise"]}
    \cup {[DefaultEnv EXCEPT !.model_file = "ok", !.scaler_file = "ok",
                             !.predict = "raise"]}
    \cup {[DefaultEnv EXCEPT !.model_file = "ok", !.scaler_file = "ok",
                             !.label = l, !.proba = pr,
                             !.classes = {"Urea", "DAP", "NPK_20_20_0"} \cup {l}] :
            l \in ModelLabels, pr \in {"absent", "ok", "raise", "no_classes"}}

NoResult == [raised |-> "not called"]

\* the records the arbitrator is run on: complete, or lacking the three
\* features the scorer and the rule engine do not read
FullRecords ==
    {MkRecord(pH, oc, n, p, k, BaseEc, c, x, x, x) :
        pH \in Nums({600, 800}), oc \in Nums({60, 100}),
        n \in Nums({40, 160}) \cup {NoneV}, p \in Nums({12, 30, 70}),
        k \in Nums({40, 150}),
        c \in {AbsentV, Str(CropRice), Str(CropPulses)},
        x \in {AbsentV, Num(1)}}

\* the records the rule engine is run on: every combination of statuses
\* and bands, and every subset of its five readings absent or null
RuleRecords ==
    {SoilRecord(pH, oc, n, p, k, AbsentV, AbsentV) :
        pH \in PhMid \cup {NoneV}, oc \in Nums({60, 100}) \cup {NoneV},
        n \in NMid \cup {NoneV}, p \in PMid \cup {NoneV}, k \in KMid \cup {NoneV}}
    \cup {SoilRecord(pH, oc, n, p, k, AbsentV, c) :
        pH \in {BasePh, NoneV, AbsentV}, oc \in {BaseOc, NoneV, AbsentV},
        n \in {BaseN, NoneV, AbsentV}, p \in {BaseP, NoneV, AbsentV},
        k \in {BaseK, NoneV, AbsentV}, c \in CropChoices}

-----------------------------------------------------------------------------
(* The state machine: a caller holding one record calls the core.          *)

\* the three tables as config.py defines them
LoadedConfig ==
    [FERTILIZER_NUTRIENT_PROFILE |-> FERTILIZER_NUTRIENT_PROFILE,
     PH_BANDS |-> [strongly_acidic   |-> PhStronglyAcidicHi,
                   moderately_acidic |-> PhModeratelyAcidicHi,
                   neutral           |-> PhNeutralHi,
                   slightly_alkaline |-> PhSlightlyAlkalineHi],
     SOIL_HEALTH_THRESHOLDS |-> [excellent |-> ThrExcellent, good |-> ThrGood,
                                 moderate  |-> ThrModerate]]

\* nothing called yet, the configuration as imported
InitResults ==
    /\ config = LoadedConfig
    /\ called = "none"
    /\ soil_health = NoResult
    /\ rules_out = NoResult
    /\ ml_out = NoResult
    /\ final = NoResult

Init ==
    /\ record \in FullRecords
    /\ crop_arg = CropOf(record)
    /\ ml_env \in MlEnvs
    /\ InitResults

CallComputeSoilHealth ==
    /\ called' = "compute_soil_health"
    /\ soil_health' = compute_soil_health(record)
    /\ rules_out' = NoResult /\ ml_out' = NoResult /\ final' = NoResult
    /\ UNCHANGED <<record, crop_arg, ml_env, config>>

CallSuggestFertilizers ==
    /\ called' = "suggest_fertilizers"
    /\ rules_out' = suggest_fertilizers(record, crop_arg)
    /\ soil_health' = NoResult /\ ml_out' = NoResult /\ final' = NoResult
    /\ UNCHANGED <<record, crop_arg, ml_env, config>>

CallPredictFertilizerMl ==
    /\ called' = "predict_fertilizer_ml"
    /\ ml_out' = predict_fertilizer_ml(record, ml_env)
    /\ soil_health' = NoResult /\ rules_out' = NoResult /\ final' = NoResult
    /\ UNCHANGED <<record, crop_arg, ml_env, config>>

\* a build that works on the caller's dict itself and fills in its crop
\* key: input_data.setdefault("crop", "")
CallBuildFinalInPlace ==
    /\ called' = "build_final_recommendation"
    /\ final' = build_final_recommendation(record, ml_env)
    /\ record' = [record EXCEPT !.crop = IF @.kind = "absent" THEN Str(<<>>) ELSE @]
    /\ soil_health' = NoResult /\ rules_out' = NoResult /\ ml_out' = NoResult
    /\ UNCHANGED <<crop_arg, ml_env, config>>

CallBuildFinalRecommendation ==
    /\ called' = "build_final_recommendation"
    /\ final' = build_final_recommendation(record, ml_env)
    /\ soil_health' = NoResult /\ rules_out' = NoResult /\ ml_out' = NoResult
    /\ UNCHANGED <<record, crop_arg, ml_env, config>>

Next ==
    \/ CallComputeSoilHealth
    \/ CallSuggestFertilizers
    \/ CallPredictFertilizerMl
    \/ CallBuildFinalRecommendation

Spec == Init /\ [][Next]_vars

\* the scorer alone, over every combination of bands
InitHealth ==
    /\ record \in BandRecords
    /\ crop_arg = CropEmpty
    /\ ml_env = DefaultEnv
    /\ InitResults

NextHealth == CallComputeSoilHealth

SpecHealth == InitHealth /\ [][NextHealth]_vars

\* the rule engine alone, over every status, band and crop
InitRules ==
    /\ record \in RuleRecords
    /\ crop_arg \in Crops
    /\ ml_env = DefaultEnv
    /\ InitResults

NextRules == CallSuggestFertilizers

SpecRules == InitRules /\ [][NextRules]_vars

\* the scorer and the rule engine on each single reading of each factor
InitBands ==
    /\ record \in SweepRecords
    /\ crop_arg = CropWheat
    /\ ml_env = DefaultEnv
    /\ InitResults

NextBands == CallComputeSoilHealth \/ CallSuggestFertilizers

SpecBands == InitBands /\ [][NextBands]_vars

\* the scorer and the rule engine with every subset of readings absent or null
InitMissing ==
    /\ record \in MissingRecords
    /\ crop_arg = CropWheat
    /\ ml_env = DefaultEnv
    /\ InitResults

NextMissing == CallComputeSoilHealth \/ CallSuggestFertilizers

SpecMissing == InitMissing /\ [][NextMissing]_vars

\* single rows with any of the readings missing, null or NaN
ShapeRows ==
    {SoilRecord(pH, oc, n, p, k, ec, c) :
        pH \in {BasePh, NoneV, AbsentV}, oc \in {BaseOc, AbsentV},
        n \in {BaseN, AbsentV}, p \in {BaseP, AbsentV}, k \in {BaseK, AbsentV},
        ec \in {BaseEc, NaNV, AbsentV}, c \in CropChoices}

\* the most rows a DataFrame is given
MaxRows == 2

Container(kind, rows) == [container |-> kind, rows |-> rows]

\* what a caller can pass as soil_data: a dict, a Series, a DataFrame of
\* 0..MaxRows rows, or an object of another type
ShapeInputs ==
    ShapeRows
    \cup {Container("Series", <<r>>) : r \in ShapeRows}
    \cup {Container("DataFrame", [i \in 1..n |-> r]) : r \in ShapeRows, n \in 0..MaxRows}
    \cup {Container(k, <<>>) : k \in {"list", "NoneType", "str"}}

\* the scorer and the rule engine on every kind of container
InitShape ==
    /\ record \in ShapeInputs
    /\ crop_arg = CropRice
    /\ ml_env = DefaultEnv
    /\ InitResults

NextShape == CallComputeSoilHealth \/ CallSuggestFertilizers

SpecShape == InitShape /\ [][NextShape]_vars

\* the arbitrator, which scores and classifies the same record, on each
\* single reading of each factor and on every subset of readings missing
InitCuts ==
    /\ record \in SweepRecords \cup MissingRecords
    /\ crop_arg = CropOf(record)
    /\ ml_env = DefaultEnv
    /\ InitResults

NextCuts == CallBuildFinalRecommendation

SpecCuts == InitCuts /\ [][NextCuts]_vars

\* the sample of fertilizer_rules.py with the crop "Rice" in the record:
\* pH 6.2, OC 0.6, N 40, P 12, K 70
SampleRecord ==
    MkRecord(Num(620), Num(60), Num(40), Num(12), Num(70), AbsentV,
             Str(CropRice), AbsentV, AbsentV, AbsentV)

\* the sample with any of ec, soil_type, rainfall, temperature added
ScenarioRecords ==
    {[SampleRecord EXCEPT !.ec = ec, !.soil_type = st, !.rainfall = rf,
                          !.temperature = tp] :
        ec \in {AbsentV, Num(60)}, st \in {AbsentV, Str(<<"L","o","a","m">>)},
        rf \in {AbsentV, Num(800)}, tp \in {AbsentV, Num(27)}}

\* the whole core on the sample record, under every state of the artifacts
InitScenario ==
    /\ record \in ScenarioRecords
    /\ crop_arg = CropOf(record)
    /\ ml_env \in MlEnvs
    /\ InitResults

NextScenario ==
    \/ CallComputeSoilHealth
    \/ CallSuggestFertilizers
    \/ CallPredictFertilizerMl
    \/ CallBuildFinalRecommendation

SpecScenario == InitScenario /\ [][NextScenario]_vars

\* a model that answers "DAP", with both artifacts in place
AnsweringEnv ==
    [DefaultEnv EXCEPT !.model_file = "ok", !.scaler_file = "ok", !.label = "DAP"]

\* the rule engine and the arbitrator on every subset of readings absent
\* or null and on complete records, for a crop of no group, no crop and rice
InitCandidates ==
    /\ record \in MissingRecords \cup FullRecords
    /\ crop_arg \in {CropWheat, CropEmpty, CropRice}
    /\ ml_env \in {DefaultEnv, AnsweringEnv}
    /\ InitResults

NextCandidates == CallSuggestFertilizers \/ CallBuildFinalRecommendation

SpecCandidates == InitCandidates /\ [][NextCandidates]_vars

\* records for the fallback: nitrogen low or medium, every pH band or
\* none, every phosphorus and potassium status, a crop of each group
FallbackRecords ==
    {MkRecord(pH, oc, n, p, k, BaseEc, c, x, x, x) :
        pH \in PhMid \cup {NoneV}, oc \in Nums({60, 100}),
        n \in Nums({40, 100}), p \in PMid, k \in KMid,
        c \in {AbsentV, Str(CropRice), Str(CropPulses), Str(CropVegetables),
               Str(CropSugarcane), Str(CropWheat)},
        x \in {AbsentV, Num(1)}}

\* the arbitrator with no model file, and with a model that answers
InitFallback ==
    /\ record \in FallbackRecords
    /\ crop_arg = CropOf(record)
    /\ ml_env \in {DefaultEnv, AnsweringEnv}
    /\ InitResults

NextFallback == CallSuggestFertilizers \/ CallBuildFinalRecommendation

SpecFallback == InitFallback /\ [][NextFallback]_vars

-----------------------------------------------------------------------------
(* Claims about the arbitrator and the predictor (specification Spec).     *)

Built == called = "build_final_recommendation" /\ final.raised = ""

CandidateNames(recs) == {recs[i].name : i \in 1..Len(recs)}

\* C1: when the predictor is available with a non-empty label L, the final
\* name is L, and the source is "ml+rules" exactly when some rule candidate,
\* at any priority and position, is named L, and "ml_only" otherwise.
C1_MlLabelWins ==
    (Built /\ final.ml.available /\ final.ml.predicted_fertilizer # "") =>
        LET L == final.ml.predicted_fertilizer
            inRules == L \in CandidateNames(final.rules.primary_recommendations)
        IN  /\ final.final_choice.name = [is_none |-> FALSE, s |-> L]
            /\ final.final_choice.source = (IF inRules THEN "ml+rules" ELSE "ml_only")

\* C1 witness: the label matches a rule candidate that is not the first one
\* and has priority 3.
C1_Witness ==
    /\ Built /\ final.ml.available
    /\ final.final_choice.source = "ml+rules"
    /\ \E i \in 2..Len(final.rules.primary_recommendations) :
          /\ final.rules.primary_recommendations[i].name = final.ml.predicted_fertilizer
          /\ final.rules.primary_recommendations[i].priority = 3

\* C2: when the predictor is unavailable or returned an empty label and the
\* rule engine has at least one candidate, the final name is the first
\* candidate's, the source is "rules_only", and the rationale holds every
\* reason of that candidate in stored order.
C2_RulesFallback ==
    (Built /\ (~final.ml.available \/ final.ml.predicted_fertilizer = "")
           /\ final.rules.primary_recommendations # <<>>) =>
        LET best == final.rules.primary_recommendations[1]
            rat == final.final_choice.rationale
        IN  /\ final.final_choice.name = [is_none |-> FALSE, s |-> best.name]
            /\ final.final_choice.source = "rules_only"
            /\ Len(rat) >= 1 + Len(best.reasons)
            /\ \A i \in 1..Len(best.reasons) :
                  rat[1 + i] = [t |-> "reason", x |-> best.reasons[i]]

\* C2 witness: the predictor is unavailable and the chosen candidate has
\* reasons from two rule groups.
C2_Witness ==
    /\ Built /\ ~final.ml.available
    /\ final.final_choice.source = "rules_only"
    /\ Len(final.rules.primary_recommendations[1].reasons) >= 2

Sources == {"ml+rules", "ml_only", "rules_only", "none"}

\* C3: every result is well formed: the source is one of the four, the name
\* is none exactly when the source is "none", and the name is none only when
\* the predictor gave no usable label and the rule engine has no candidate.
C3_WellFormed ==
    Built =>
        /\ final.final_choice.source \in Sources
        /\ final.final_choice.name.is_none <=> (final.final_choice.source = "none")
        /\ final.final_choice.name.is_none =>
              /\ ~final.ml.available \/ final.ml.predicted_fertilizer = ""
              /\ final.rules.primary_recommendations = <<>>

\* C3 witness: a returned result whose name came from the predictor alone.
C3_Witness ==
    /\ Built
    /\ final.final_choice.source = "ml_only"
    /\ ~final.final_choice.name.is_none

Predicted == called = "predict_fertilizer_ml"

NoCorruptArtifact ==
    /\ ml_env.model_file # "corrupt"
    /\ ml_env.model_file = "ok" => ml_env.scaler_file # "corrupt"

\* the five failure modes: model file missing, transform file missing,
\* malformed record, transform failure, inference failure
FailureMode ==
    \/ ml_env.model_file = "missing"
    \/ ml_env.scaler_file = "missing"
    \/ \E k \in INPUT_FEATURES : record[k].kind = "absent"
    \/ ml_env.transform = "raise"
    \/ ml_env.predict = "raise"

\* C4: the predictor never raises to its caller, and in each of the five
\* failure modes it returns available = false with a non-empty message.
C4_PredictorNeverRaises ==
    Predicted =>
        /\ ml_out.raised = ""
        /\ FailureMode => (~ml_out.available /\ ml_out.message # "")

\* with artifacts that are either missing or loadable, the five failure
\* modes are all answered with available = false and a message
ListedModesHandled ==
    (Predicted /\ NoCorruptArtifact /\ FailureMode) =>
        /\ ml_out.raised = ""
        /\ ~ml_out.available
        /\ ml_out.message # ""

CorruptArtifact ==
    \/ ml_env.model_file = "corrupt"
    \/ ml_env.model_file = "ok" /\ ml_env.scaler_file = "corrupt"

\* C5: a corrupt model or transform artifact is recovered like a missing
\* one: the predictor returns available = false with a message and no
\* exception reaches build_final_recommendation or its caller.
C5_CorruptArtifactRecovered ==
    /\ (Predicted /\ CorruptArtifact) =>
          ml_out.raised = "" /\ ~ml_out.available /\ ml_out.message # ""
    /\ (called = "build_final_recommendation" /\ CorruptArtifact) =>
          final.raised = ""

\* both artifacts load, so the feature builder is reached, and the record
\* lacks a key of INPUT_FEATURES
BuilderRejects ==
    /\ ml_env.model_file = "ok" /\ ml_env.scaler_file = "ok"
    /\ \E k \in INPUT_FEATURES : record[k].kind = "absent"

\* C19 as stated: the error of a record that lacks a key required by the
\* feature builder propagates to the caller of the core and is not
\* converted into a normal result.
C19_MissingKeyPropagates ==
    /\ (Predicted /\ BuilderRejects) => ml_out.raised # ""
    /\ (called = "build_final_recommendation" /\ BuilderRejects) => final.raised # ""

\* C19 amended: the feature builder's error is caught inside the predictor
\* and converted into available = false with the invalid-input message;
\* build_final_recommendation then returns a normal result from the rules.
C19_MissingKeyConverted ==
    /\ (Predicted /\ BuilderRejects) =>
          /\ ml_out.raised = ""
          /\ ~ml_out.available
          /\ ml_out.message = "Invalid input for ML model"
    /\ (called = "build_final_recommendation" /\ BuilderRejects) =>
          /\ final.raised = ""
          /\ ~final.ml.available
          /\ final.ml.message = "Invalid input for ML model"
          /\ final.final_choice.source = "rules_only"
          /\ final.final_choice.rationale[Len(final.final_choice.rationale)] =
                [t |-> "note", x |-> "Invalid input for ML model"]

\* C19 witness: with both artifacts loaded, a record that lacks only the
\* crop key got a rules_only result carrying the invalid-input note.
C19_Witness ==
    /\ Built
    /\ ml_env.model_file = "ok" /\ ml_env.scaler_file = "ok"
    /\ record["crop"].kind = "absent"
    /\ \A k \in INPUT_FEATURES \ {"crop"} : record[k].kind # "absent"
    /\ final.final_choice.source = "rules_only"
    /\ final.ml.message = "Invalid input for ML model"

\* both artifacts load, the record has every feature, and transform and
\* predict return
InferenceSucceeds ==
    /\ ml_env.model_file = "ok" /\ ml_env.scaler_file = "ok"
    /\ \A k \in INPUT_FEATURES : record[k].kind # "absent"
    /\ ml_env.transform = "ok" /\ ml_env.predict = "ok"

\* C26: when inference succeeds the predictor returns available = true with
\* the predicted label; if the model gives per-class probabilities the
\* mapping has one entry per model class; a failure while computing them
\* leaves available = true, the label kept and probabilities none.
C26_LabelAndProbabilities ==
    (Predicted /\ InferenceSucceeds) =>
        /\ ml_out.raised = ""
        /\ ml_out.available
        /\ ml_out.has_label /\ ml_out.predicted_fertilizer = ml_env.label
        /\ ml_env.proba = "ok" =>
              ml_out.has_probabilities /\ ml_out.probabilities = ml_env.classes
        /\ ml_env.proba \in {"raise", "absent"} => ~ml_out.has_probabilities

\* C26 witness: predict_proba raised, and the result is available with the
\* label DAP and no probabilities.
C26_Witness ==
    /\ Predicted /\ InferenceSucceeds
    /\ ml_env.proba = "raise"
    /\ ml_out.available /\ ml_out.predicted_fertilizer = "DAP"
    /\ ~ml_out.has_probabilities

\* the shape of a predictor result r
PredictorResultShape(r) ==
    /\ ~r.available =>
          /\ ~r.has_label
          /\ ~r.has_probabilities
          /\ r.message # ""
    /\ r.available => (r.has_label /\ r.message = "")

\* C27: every result of predict_fertilizer_ml satisfies: available = false
\* implies the label is none, probabilities is none and the message is a
\* non-empty string; available = true implies the label is a string and
\* the message is none.
C27_ResultShape ==
    /\ (Predicted /\ ml_out.raised = "") => PredictorResultShape(ml_out)
    /\ Built => PredictorResultShape(final.ml)

\* C27 witness: predict raised, and the result is unavailable with no
\* label, no probabilities and the prediction-error message.
C27_Witness ==
    /\ Predicted
    /\ ml_env.predict = "raise"
    /\ ml_out.raised = "" /\ ~ml_out.available /\ ~ml_out.has_label
    /\ ml_out.message = "Error during ML prediction"

-----------------------------------------------------------------------------
(* Claims about the band classifiers and the scorer.                       *)

Scored    == called = "compute_soil_health"
Suggested == called = "suggest_fertilizers"

\* the pH cut points 5.5, 6.5, 7.5, 8.5 with the band below and above each
PhCuts == <<550, 650, 750, 850>>
BandNames == <<"strongly_acidic", "moderately_acidic", "neutral",
               "slightly_alkaline", "strongly_alkaline">>
LevelNames == <<"strongly acidic", "moderately acidic", "near neutral",
                "slightly alkaline", "strongly alkaline">>

\* C6 as stated: a pH exactly on a cut point falls into the lower band, and
\* a pH just above it into the upper band, for the classifier and the
\* scorer (pH 6.5 is "moderately_acidic").
C6_BoundaryInLowerBand ==
    \A i \in 1..4 :
        /\ (Suggested /\ record.pH = Num(PhCuts[i])) => rules_out.ph_band = BandNames[i]
        /\ (Suggested /\ record.pH = Num(PhCuts[i] + 1)) => rules_out.ph_band = BandNames[i + 1]
        /\ (Scored /\ record.pH = Num(PhCuts[i])) =>
              soil_health.factor_scores.pH.level = LevelNames[i]
        /\ (Scored /\ record.pH = Num(PhCuts[i] + 1)) =>
              soil_health.factor_scores.pH.level = LevelNames[i + 1]

\* C6 amended: a pH exactly on a cut point falls into the upper band, and a
\* pH just below it into the lower band, for the classifier and the scorer
\* (pH 6.5 is "neutral", pH 6.49 is "moderately_acidic").
C6_BoundaryInUpperBand ==
    \A i \in 1..4 :
        /\ (Suggested /\ record.pH = Num(PhCuts[i])) => rules_out.ph_band = BandNames[i + 1]
        /\ (Suggested /\ record.pH = Num(PhCuts[i] - 1)) => rules_out.ph_band = BandNames[i]
        /\ (Scored /\ record.pH = Num(PhCuts[i])) =>
              soil_health.factor_scores.pH.level = LevelNames[i + 1]
        /\ (Scored /\ record.pH = Num(PhCuts[i] - 1)) =>
              soil_health.factor_scores.pH.level = LevelNames[i]

\* C6 witness: the classifier has been run on pH 6.5 and answered "neutral".
C6_Witness ==
    Suggested /\ record.pH = Num(650) /\ rules_out.ph_band = "neutral"

\* the band table of the claim
TablePh(v) == IF v < 550 THEN F0_3 ELSE IF v < 650 THEN F0_7
              ELSE IF v < 750 THEN F1_0 ELSE IF v < 850 THEN F0_7 ELSE F0_3
TableOc(v) == IF v < 50 THEN F0_4 ELSE IF v < 75 THEN F0_7
              ELSE IF v < 150 THEN F1_0 ELSE F0_9
TableN(v)  == IF v < 50 THEN F0_4 ELSE IF v < 150 THEN F1_0 ELSE F0_6
TableP(v)  == IF v < 15 THEN F0_4 ELSE IF v < 60 THEN F1_0 ELSE F0_6
TableK(v)  == IF v < 50 THEN F0_4 ELSE IF v < 200 THEN F1_0 ELSE F0_7
TableEc(v) == IF v < 80 THEN F1_0 ELSE IF v < 200 THEN F0_7 ELSE F0_3

OptimalRecord ==
    /\ record.pH = Num(700) /\ record.organic_carbon = Num(100)
    /\ record.nitrogen = Num(100) /\ record.phosphorus = Num(30)
    /\ record.potassium = Num(150) /\ record.ec = Num(50)

\* C7: for every present value of each factor compute_soil_health assigns
\* the sub-score of the fixed band table, so the record pH 7.0, OC 1.0,
\* N 100, P 30, K 150, EC 0.5 scores 1.0 on all six factors.
C7_BandTable ==
    Scored =>
        LET fs == soil_health.factor_scores
        IN  /\ record.pH.kind = "num" => fs.pH.score = TablePh(record.pH.v)
            /\ record.organic_carbon.kind = "num" =>
                  fs.organic_carbon.score = TableOc(record.organic_carbon.v)
            /\ record.nitrogen.kind = "num" => fs.nitrogen.score = TableN(record.nitrogen.v)
            /\ record.phosphorus.kind = "num" =>
                  fs.phosphorus.score = TableP(record.phosphorus.v)
            /\ record.potassium.kind = "num" =>
                  fs.potassium.score = TableK(record.potassium.v)
            /\ record.ec.kind = "num" => fs.ec.score = TableEc(record.ec.v)
            /\ OptimalRecord => \A k \in SoilKeys : fs[k].score = F1_0

\* C7 witness: the optimal record has been scored 1.0 on all six factors.
C7_Witness ==
    /\ Scored /\ OptimalRecord
    /\ \A k \in SoilKeys : soil_health.factor_scores[k].score = F1_0

\* a score in tenths
TenthsOf(d) ==
    CASE d = F0_3 -> 3 [] d = F0_4 -> 4 [] d = F0_5 -> 5 [] d = F0_6 -> 6
      [] d = F0_7 -> 7 [] d = F0_9 -> 9 [] d = F1_0 -> 10

\* six times the exact mean of the six scores, in tenths
ScoreSum(fs) ==
    TenthsOf(fs.pH.score) + TenthsOf(fs.organic_carbon.score)
    + TenthsOf(fs.nitrogen.score) + TenthsOf(fs.phosphorus.score)
    + TenthsOf(fs.potassium.score) + TenthsOf(fs.ec.score)

\* C8: the index lies in [0,1] and the category follows the inclusive-lower
\* thresholds on the mean of the six scores: Excellent iff mean >= 0.8,
\* Good iff 0.6 <= mean < 0.8, Moderate iff 0.4 <= mean < 0.6, else Poor,
\* also when the six scores average exactly 0.8, 0.6 or 0.4.
C8_CategoryOfMean ==
    Scored =>
        LET sum == ScoreSum(soil_health.factor_scores)
        IN  /\ FGe(soil_health.index, FZero) /\ FGe(F1_0, soil_health.index)
            /\ soil_health.category =
                  (IF sum >= 48 THEN "Excellent" ELSE IF sum >= 36 THEN "Good"
                   ELSE IF sum >= 24 THEN "Moderate" ELSE "Poor")

UnknownScore == [score |-> F0_5, level |-> "unknown"]

Missing(x) == x.kind \in {"absent", "none"}

\* C9: each soil factor that is absent or null in the record gets score 0.5
\* and level "unknown" from compute_soil_health, which does not raise, and
\* the NPK/pH classifiers answer "unknown" for each absent or null reading.
C9_MissingIsUnknown ==
    /\ Scored =>
          /\ soil_health.raised = ""
          /\ \A k \in SoilKeys :
                Missing(record[k]) => soil_health.factor_scores[k] = UnknownScore
    /\ Suggested =>
          /\ rules_out.raised = ""
          /\ Missing(record.nitrogen) => rules_out.npk_status.N = "unknown"
          /\ Missing(record.phosphorus) => rules_out.npk_status.P = "unknown"
          /\ Missing(record.potassium) => rules_out.npk_status.K = "unknown"
          /\ Missing(record.pH) => rules_out.ph_band = "unknown"

-----------------------------------------------------------------------------
(* Claims about the rule engine (specification SpecRules).                 *)

\* what the five rule groups emitted for the record, in firing order
Emitted ==
    LET row == NormalizeInput(record)
    IN  CollectRecs(rules_out.npk_status.N, rules_out.npk_status.P,
                    rules_out.npk_status.K, rules_out.ph_band,
                    Get(row, "organic_carbon"), crop_arg)

\* the emissions named nm, in order
EmittedAs(em, nm) == LET Test(e) == e.name = nm IN SelectSeq(em, Test)

\* C10: candidates are merged by name: each name occurs once, its priority
\* is the least priority emitted with that name, and its reasons are the
\* reasons of those emissions in firing order, none lost or reordered.
C10_MergeByName ==
    Suggested =>
        LET recs == rules_out.primary_recommendations
            em == Emitted
        IN  /\ \A i, j \in 1..Len(recs) : recs[i].name = recs[j].name => i = j
            /\ {recs[i].name : i \in 1..Len(recs)} = {em[i].name : i \in 1..Len(em)}
            /\ \A i \in 1..Len(recs) :
                  LET es == EmittedAs(em, recs[i].name)
                  IN  /\ \A j \in 1..Len(es) : recs[i].priority <= es[j].priority
                      /\ \E j \in 1..Len(es) : recs[i].priority = es[j].priority
                      /\ recs[i].reasons = [j \in 1..Len(es) |-> es[j].reason]

\* C10 witness: Urea was emitted with priority 3 by the nitrogen rules and
\* with priority 1 by the crop rules, and is merged to priority 1 with both
\* reasons in that order.
C10_Witness ==
    /\ Suggested
    /\ \E i \in 1..Len(rules_out.primary_recommendations) :
          /\ rules_out.primary_recommendations[i].name = "Urea"
          /\ rules_out.primary_recommendations[i].priority = 1
          /\ rules_out.primary_recommendations[i].reasons =
                <<"n_adequate_urea_maintenance", "crop_rice_urea">>

\* position of the first emission named nm
FirstEmitted(em, nm) == CHOOSE i \in 1..Len(em) :
    em[i].name = nm /\ \A j \in 1..(i - 1) : em[j].name # nm

\* C11: primary_recommendations is sorted by ascending merged priority, and
\* two candidates of equal priority stand in the order in which their names
\* were first emitted by the rule groups.
C11_SortedStable ==
    Suggested =>
        LET recs == rules_out.primary_recommendations
            em == Emitted
        IN  \A i, j \in 1..Len(recs) :
                i < j =>
                    /\ recs[i].priority <= recs[j].priority
                    /\ recs[i].priority = recs[j].priority =>
                          FirstEmitted(em, recs[i].name) < FirstEmitted(em, recs[j].name)

\* C11 witness: Urea (first emitted at priority 3, merged to 1 by the rice
\* rule) stands before MOP (emitted at priority 1 in between).
C11_Witness ==
    /\ Suggested
    /\ \E i, j \in 1..Len(rules_out.primary_recommendations) :
          /\ i < j
          /\ rules_out.primary_recommendations[i].name = "Urea"
          /\ rules_out.primary_recommendations[i].reasons[1] = "n_adequate_urea_maintenance"
          /\ rules_out.primary_recommendations[j].name = "MOP"
          /\ rules_out.primary_recommendations[i].priority = 1
          /\ rules_out.primary_recommendations[j].priority = 1

\* the elements of a sequence
Range(s) == {s[i] : i \in 1..Len(s)}

NoRepeats(s) == \A i, j \in 1..Len(s) : s[i] = s[j] => i = j

\* C14: warnings holds the nitrogen warning iff N is high, the phosphorus
\* warning iff P is high, and nothing else; notes holds the potassium note
\* iff K is high, the acidity note iff the band is acidic, the alkalinity
\* note iff the band is alkaline, and always the disclaimer as the last note.
C14_WarningsAndNotes ==
    Suggested =>
        LET w == rules_out.warnings
            nt == rules_out.notes
            st == rules_out.npk_status
            band == rules_out.ph_band
        IN  /\ "warn_n_high" \in Range(w) <=> st.N = "high"
            /\ "warn_p_high" \in Range(w) <=> st.P = "high"
            /\ Range(w) \subseteq {"warn_n_high", "warn_p_high"}
            /\ NoRepeats(w)
            /\ "note_k_high" \in Range(nt) <=> st.K = "high"
            /\ "note_acidic" \in Range(nt) <=>
                  band \in {"strongly_acidic", "moderately_acidic"}
            /\ "note_alkaline" \in Range(nt) <=>
                  band \in {"slightly_alkaline", "strongly_alkaline"}
            /\ Range(nt) \subseteq {"note_k_high", "note_acidic", "note_alkaline",
                                     "note_local_calibration"}
            /\ NoRepeats(nt)
            /\ nt # <<>> /\ nt[Len(nt)] = "note_local_calibration"

\* C14 witness: N, P and K are high on an alkaline soil: two warnings and
\* three notes.
C14_Witness ==
    /\ Suggested
    /\ rules_out.npk_status = [N |-> "high", P |-> "high", K |-> "high"]
    /\ rules_out.ph_band = "slightly_alkaline"
    /\ rules_out.warnings = <<"warn_n_high", "warn_p_high">>
    /\ rules_out.notes = <<"note_k_high", "note_alkaline", "note_local_calibration">>

\* C18: every candidate carries the nutrient profile stored under its name
\* in the nutrient-profile table, and a candidate whose name has no entry
\* (Biofertilizer) carries an empty profile, without any error.
C18_NutrientProfiles ==
    Suggested =>
        /\ rules_out.raised = ""
        /\ \A i \in 1..Len(rules_out.primary_recommendations) :
              LET c == rules_out.primary_recommendations[i]
              IN  IF c.name \in DOMAIN FERTILIZER_NUTRIENT_PROFILE
                  THEN c.nutrients = FERTILIZER_NUTRIENT_PROFILE[c.name]
                  ELSE DOMAIN c.nutrients = {}

\* C18 witness: Biofertilizer is returned with an empty profile next to
\* Ammonium Sulphate with its 21 % N and 24 % S.
C18_Witness ==
    /\ Suggested
    /\ \E i, j \in 1..Len(rules_out.primary_recommendations) :
          /\ rules_out.primary_recommendations[i].name = "Biofertilizer"
          /\ DOMAIN rules_out.primary_recommendations[i].nutrients = {}
          /\ rules_out.primary_recommendations[j].name = "Ammonium Sulphate"
          /\ rules_out.primary_recommendations[j].nutrients.N = 210
          /\ rules_out.primary_recommendations[j].nutrients.S = 240

\* what the nitrogen group emitted for the statuses of the result
NEmitted == _base_n_recommendations(rules_out.npk_status.N, rules_out.ph_band)

\* name and priority of each emission, in order
NamesAndPriorities(em) == [i \in 1..Len(em) |-> <<em[i].name, em[i].priority>>]

\* C20: the nitrogen group emits: low N on an acidic band, Urea at 1 then
\* Ammonium Sulphate at 2; low N on an alkaline band, only Urea at 1 with
\* the incorporation caution; low N on the neutral band, only Urea at 1;
\* adequate N, only Urea at 3; high N, only FYM at 4; unknown N, nothing.
\* Hence Ammonium Sulphate is a final candidate iff N is low and the band
\* is acidic.
C20_NitrogenGroup ==
    Suggested =>
        LET n == rules_out.npk_status.N
            band == rules_out.ph_band
            em == NEmitted
            np == NamesAndPriorities(em)
            acidic == band \in {"strongly_acidic", "moderately_acidic"}
            alkaline == band \in {"slightly_alkaline", "strongly_alkaline"}
        IN  /\ (n = "low" /\ acidic) =>
                  np = << <<"Urea", 1>>, <<"Ammonium Sulphate", 2>> >>
            /\ (n = "low" /\ alkaline) =>
                  /\ np = << <<"Urea", 1>> >>
                  /\ em[1].reason = "n_low_alkaline_urea_incorporate"
            /\ (n = "low" /\ band = "neutral") => np = << <<"Urea", 1>> >>
            /\ n = "adequate" => np = << <<"Urea", 3>> >>
            /\ n = "high" => np = << <<"FYM", 4>> >>
            /\ n = "unknown" => em = <<>>
            /\ em = SubSeq(Emitted, 1, Len(em))
            /\ "Ammonium Sulphate" \in CandidateNames(rules_out.primary_recommendations)
                  <=> (n = "low" /\ acidic)

\* C20 witness: low N on a strongly acidic soil, and Ammonium Sulphate is
\* returned at priority 2 behind Urea at priority 1.
C20_Witness ==
    /\ Suggested
    /\ rules_out.npk_status.N = "low" /\ rules_out.ph_band = "strongly_acidic"
    /\ rules_out.primary_recommendations[1].name = "Urea"
    /\ rules_out.primary_recommendations[1].priority = 1
    /\ \E i \in 1..Len(rules_out.primary_recommendations) :
          /\ rules_out.primary_recommendations[i].name = "Ammonium Sulphate"
          /\ rules_out.primary_recommendations[i].priority = 2

\* what the phosphorus group emitted for the statuses of the result
PEmitted == _base_p_recommendations(rules_out.npk_status.P, rules_out.ph_band)

\* C21: the phosphorus group emits: low P on an acidic band, SSP at 1 first
\* and DAP at 2 second; low P on an alkaline or the neutral band, only DAP
\* at 1; adequate P, only DAP at 3; high P, only FYM at 4; unknown P,
\* nothing.  Hence SSP is a final candidate iff P is low and the band is
\* acidic.
C21_PhosphorusGroup ==
    Suggested =>
        LET ps == rules_out.npk_status.P
            band == rules_out.ph_band
            em == PEmitted
            np == NamesAndPriorities(em)
            nlen == Len(_base_n_recommendations(rules_out.npk_status.N, band))
            acidic == band \in {"strongly_acidic", "moderately_acidic"}
            alkaline == band \in {"slightly_alkaline", "strongly_alkaline"}
        IN  /\ (ps = "low" /\ acidic) => np = << <<"SSP", 1>>, <<"DAP", 2>> >>
            /\ (ps = "low" /\ (alkaline \/ band = "neutral")) => np = << <<"DAP", 1>> >>
            /\ ps = "adequate" => np = << <<"DAP", 3>> >>
            /\ ps = "high" => np = << <<"FYM", 4>> >>
            /\ ps = "unknown" => em = <<>>
            /\ em = SubSeq(Emitted, nlen + 1, nlen + Len(em))
            /\ "SSP" \in CandidateNames(rules_out.primary_recommendations)
                  <=> (ps = "low" /\ acidic)

\* C21 witness: low P on a moderately acidic soil, and SSP is returned at
\* priority 1 with DAP behind it.
C21_Witness ==
    /\ Suggested
    /\ rules_out.npk_status.P = "low" /\ rules_out.ph_band = "moderately_acidic"
    /\ \E i, j \in 1..Len(rules_out.primary_recommendations) :
          /\ i < j
          /\ rules_out.primary_recommendations[i].name = "SSP"
          /\ rules_out.primary_recommendations[i].priority = 1
          /\ rules_out.primary_recommendations[j].name = "DAP"
          /\ rules_out.primary_recommendations[j].reasons[1] = "p_low_acidic_dap"

\* what the organic group emitted for the record
OcEmitted ==
    _organic_and_bio_recommendations(Get(_normalize_input(record).row, "organic_carbon"))

\* the candidate named nm carries the reason rs
HasReason(recs, nm, rs) ==
    \E i \in 1..Len(recs) :
        recs[i].name = nm /\ \E j \in 1..Len(recs[i].reasons) : recs[i].reasons[j] = rs

\* C22: the organic group emits FYM at 1 and Vermicompost at 2 when organic
\* carbon is below 0.75, and only Biofertilizer at 3 when it is at or above
\* 0.75 (exactly 0.75 included); the two branches exclude each other.
C22_OrganicGroup ==
    (Suggested /\ record.organic_carbon.kind = "num") =>
        LET v == record.organic_carbon.v
            np == NamesAndPriorities(OcEmitted)
            recs == rules_out.primary_recommendations
        IN  /\ v < 75 => np = << <<"FYM", 1>>, <<"Vermicompost", 2>> >>
            /\ v >= 75 => np = << <<"Biofertilizer", 3>> >>
            /\ HasReason(recs, "FYM", "oc_low_fym") <=> v < 75
            /\ HasReason(recs, "Vermicompost", "oc_low_vermicompost") <=> v < 75
            /\ HasReason(recs, "Biofertilizer", "oc_good_biofertilizer") <=> v >= 75

\* C22 witness: organic carbon exactly 0.75 gave Biofertilizer at priority 3
\* and no Vermicompost.
C22_Witness ==
    /\ Suggested
    /\ record.organic_carbon = Num(75)
    /\ \E i \in 1..Len(rules_out.primary_recommendations) :
          /\ rules_out.primary_recommendations[i].name = "Biofertilizer"
          /\ rules_out.primary_recommendations[i].priority = 3
    /\ "Vermicompost" \notin CandidateNames(rules_out.primary_recommendations)

\* the crop name holds the keyword kw, in any letter case
Holds(kw) == Contains(Lower(crop_arg), kw)

\* C23: crop matching is case-insensitive substring matching for every
\* keyword of the crop-group table: a name holding a keyword of a group
\* (rice; pulse, gram, lentil, pea; vegetable, tomato, potato, chilli,
\* brinjal; sugarcane) anywhere in it gets that group's additions, and a
\* name holding no keyword of a group gets none of them.
C23_SubstringMatch ==
    Suggested =>
        LET recs == rules_out.primary_recommendations
        IN  /\ HasReason(recs, "Urea", "crop_rice_urea") <=> Holds(KwRice)
            /\ HasReason(recs, "Biofertilizer", "crop_pulse_biofertilizer") <=>
                  (Holds(KwPulse) \/ Holds(KwGram) \/ Holds(KwLentil) \/ Holds(KwPea))
            /\ HasReason(recs, "NPK_17_17_17", "crop_vegetable_npk") <=>
                  (Holds(KwVegetable) \/ \E nm \in VegetableNames : Holds(nm))
            /\ HasReason(recs, "MOP", "crop_sugarcane_mop") <=> Holds(KwSugarcane)

\* what the crop group emitted for the crop and the statuses of the result
CropEmitted == _crop_specific_adjustments(crop_arg, rules_out.npk_status)

\* the crop group's emissions are the last emissions of the five groups
CropEmittedLast ==
    CropEmitted = SubSeq(Emitted, Len(Emitted) - Len(CropEmitted) + 1, Len(Emitted))

CerealAdditions ==
    << <<"Urea", 1>> >>
    \o (IF rules_out.npk_status.K = "low" THEN << <<"MOP", 2>> >> ELSE <<>>)

\* what the crop group adds for legumes, vegetables and sugarcane
OtherGroupAdditions ==
    LET np == NamesAndPriorities(CropEmitted)
    IN  /\ crop_arg \in {CropPulses, CropGreenGram} =>
              np = << <<"Biofertilizer", 1>> >>
                   \o (IF rules_out.npk_status.P = "low" THEN << <<"DAP", 2>> >> ELSE <<>>)
        /\ crop_arg \in {CropVegetables, CropTomato} =>
              np = << <<"NPK_17_17_17", 1>>, <<"Vermicompost", 2>> >>
        /\ crop_arg = CropSugarcane => np = << <<"MOP", 1>>, <<"Urea", 2>> >>

\* C24 as stated: for every cereal of the supported crops (Rice, Wheat,
\* Maize) the crop group adds Urea at 1 plus MOP at 2 iff K is low; for
\* legumes Biofertilizer at 1 plus DAP at 2 iff P is low; for vegetables
\* NPK_17_17_17 at 1 plus Vermicompost at 2; for sugarcane MOP at 1 plus
\* Urea at 2.
C24_CerealAdditions ==
    Suggested =>
        /\ CropEmittedLast
        /\ crop_arg \in {CropRice, CropWheat, CropMaize} =>
              NamesAndPriorities(CropEmitted) = CerealAdditions
        /\ OtherGroupAdditions

\* what the code does: only a name holding "rice" gets the cereal
\* additions; Wheat and Maize get no crop-specific addition
RiceOnlyAdditions ==
    Suggested =>
        /\ CropEmittedLast
        /\ crop_arg = CropRice => NamesAndPriorities(CropEmitted) = CerealAdditions
        /\ crop_arg \in {CropWheat, CropMaize} => CropEmitted = <<>>
        /\ OtherGroupAdditions

MineralNitrogen == {"Urea", "Ammonium Sulphate"}

\* C25: whenever the N status is high (here for a nitrogen reading of 150
\* or more), for every crop and every other soil value, the final
\* candidates contain FYM and no mineral nitrogen source (Urea, Ammonium
\* Sulphate).
C25_HighNNoMineralN ==
    (Suggested /\ record.nitrogen.kind = "num" /\ rules_out.npk_status.N = "high") =>
        LET names == CandidateNames(rules_out.primary_recommendations)
        IN  "FYM" \in names /\ names \cap MineralNitrogen = {}

-----------------------------------------------------------------------------
(* Claims relating the classifiers and the scorer (specification SpecCuts).*)

\* the scorer's pH level that corresponds to each pH band
LevelOfBand(band) ==
    CASE band = "strongly_acidic"   -> "strongly acidic"
      [] band = "moderately_acidic" -> "moderately acidic"
      [] band = "neutral"           -> "near neutral"
      [] band = "slightly_alkaline" -> "slightly alkaline"
      [] band = "strongly_alkaline" -> "strongly alkaline"
      [] band = "unknown"           -> "unknown"

\* C17: the classifiers and the scorer use the same cut points: for every
\* N, P and K reading, missing ones included, the status label equals the
\* scorer's level label, and the pH band corresponds to the scorer's pH level.
C17_SameCutPoints ==
    Built =>
        LET fs == final.soil_health.factor_scores
            st == final.rules.npk_status
        IN  /\ st.N = fs.nitrogen.level
            /\ st.P = fs.phosphorus.level
            /\ st.K = fs.potassium.level
            /\ LevelOfBand(final.rules.ph_band) = fs.pH.level

\* C17 witness: potassium exactly on the upper cut point 200 is "high" for
\* the classifier and for the scorer.
C17_Witness ==
    /\ Built
    /\ record.potassium = Num(200)
    /\ final.rules.npk_status.K = "high"
    /\ final.soil_health.factor_scores.potassium.level = "high"

-----------------------------------------------------------------------------
(* Claims about the input container (specification SpecShape).             *)

\* a table whose number of rows is not one, or a container that is not a
\* dict, a Series or a table
Malformed(c) ==
    /\ ~IsDict(c)
    /\ \/ c.container = "DataFrame" /\ Len(c.rows) # 1
       \/ c.container \notin {"DataFrame", "Series"}

ShapeErrors == {"ValueError", "TypeError"}

\* C16: suggest_fertilizers and compute_soil_health raise an input-shape
\* error exactly when the container is malformed; for a well-typed single
\* record, whatever fields are missing, they return a result.
C16_RaisesIffMalformed ==
    /\ Scored =>
          /\ Malformed(record) => soil_health.raised \in ShapeErrors
          /\ ~Malformed(record) =>
                soil_health.raised = "" /\ DOMAIN soil_health.factor_scores = SoilKeys
    /\ Suggested =>
          /\ Malformed(record) => rules_out.raised \in ShapeErrors
          /\ ~Malformed(record) =>
                rules_out.raised = "" /\ rules_out.primary_recommendations # <<>>

\* C16 witness: a two-row table made suggest_fertilizers raise ValueError.
C16_Witness ==
    /\ Suggested
    /\ ~IsDict(record) /\ record.container = "DataFrame" /\ Len(record.rows) = 2
    /\ rules_out.raised = "ValueError"

-----------------------------------------------------------------------------
(* Claims about the rationale (specification Spec).                        *)

DecisionTags == {"ml_predicts", "ml_predicts_from_patterns", "rules_select",
                 "no_recommendation"}
ConfirmationTags == {"rules_also_support", "rules_no_match"}

\* C13: the rationale lines stand in the fixed order: the decision line,
\* then the rule confirmation or absence line and the matched candidate's
\* reasons, then exactly one soil-health line in every branch, then the
\* predictor's message as the last line exactly when it was unavailable.
C13_RationaleOrder ==
    Built =>
        LET rat == final.final_choice.rationale
            n == Len(rat)
            hasNote == ~final.ml.available
            shPos == IF hasNote THEN n - 1 ELSE n
            byMl == rat[1].t \in {"ml_predicts", "ml_predicts_from_patterns"}
            first == IF byMl THEN 3 ELSE 2
        IN  /\ n >= 2 /\ shPos >= 2
            /\ rat[1].t \in DecisionTags
            /\ byMl <=> final.final_choice.source \in {"ml+rules", "ml_only"}
            /\ byMl => rat[2].t \in ConfirmationTags
            /\ \A i \in first..(shPos - 1) : rat[i].t = "reason"
            /\ final.final_choice.source = "ml+rules" =>
                  \E m \in 1..Len(final.rules.primary_recommendations) :
                      /\ final.rules.primary_recommendations[m].name =
                            final.ml.predicted_fertilizer
                      /\ SubSeq(rat, 3, shPos - 1) =
                            ReasonLines(final.rules.primary_recommendations[m].reasons)
            /\ rat[shPos] = [t |-> "soil_health", x |-> final.soil_health.category]
            /\ \A i \in 1..n : rat[i].t = "soil_health" => i = shPos
            /\ hasNote => rat[n] = [t |-> "note", x |-> final.ml.message]
            /\ \A i \in 1..n : rat[i].t = "note" => (hasNote /\ i = n)

\* C13 witness: the rules decided with two reasons, and the soil-health line
\* is followed by the predictor's note.
C13_Witness ==
    /\ Built /\ ~final.ml.available
    /\ LET rat == final.final_choice.rationale
       IN  /\ Len(rat) >= 5
           /\ rat[1].t = "rules_select" /\ rat[2].t = "reason" /\ rat[3].t = "reason"
           /\ rat[Len(rat) - 1].t = "soil_health"
           /\ rat[Len(rat)].t = "note"

-----------------------------------------------------------------------------
(* Claims about the end-to-end scenario (specification SpecScenario).      *)

\* the sample record, which lacks soil_type, rainfall, temperature and ec,
\* with neither artifact file present
ScenarioCase ==
    /\ record = SampleRecord
    /\ ml_env.model_file = "missing" /\ ml_env.scaler_file = "missing"

ScenarioRules(r) ==
    /\ r.raised = ""
    /\ r.npk_status = [N |-> "low", P |-> "low", K |-> "adequate"]
    /\ r.ph_band = "moderately_acidic"
    /\ r.primary_recommendations # <<>>
    /\ r.primary_recommendations[1].name = "Urea"
    /\ r.primary_recommendations[1].priority = 1
    /\ r.primary_recommendations[1].nutrients.type = "Nitrogenous"

\* C12: for the record {pH 6.2, OC 0.6, N 40, P 12, K 70, crop "Rice"} with
\* no predictor artifacts, the rule engine answers N low, P low, K adequate,
\* band moderately_acidic and Urea at priority 1 first, and
\* build_final_recommendation returns source "rules_only" without raising.
C12_Scenario ==
    /\ (ScenarioCase /\ Suggested) => ScenarioRules(rules_out)
    /\ (ScenarioCase /\ called = "build_final_recommendation") =>
          /\ final.raised = ""
          /\ ScenarioRules(final.rules)
          /\ final.final_choice.source = "rules_only"

\* C12 witness: the arbitrator returned Urea from the rules for the sample.
C12_Witness ==
    /\ ScenarioCase /\ Built
    /\ final.final_choice.source = "rules_only"
    /\ final.final_choice.name = [is_none |-> FALSE, s |-> "Urea"]
    /\ ~final.ml.available

-----------------------------------------------------------------------------
(* Claims about the core as a whole.                                       *)

\* the organic-carbon reading is absent from the record or null
OcMissing == record.organic_carbon.kind \in {"none", "absent"}

\* the rule engine returned a candidate, and the arbitrator a name
SomeCandidate ==
    /\ (Suggested /\ rules_out.raised = "") =>
          Len(rules_out.primary_recommendations) >= 1
    /\ Built =>
          /\ ~final.final_choice.name.is_none
          /\ final.final_choice.source # "none"

\* C28: for every record and crop string, all soil fields missing and a
\* crop of no group included, suggest_fertilizers returns at least one
\* candidate, the organic-carbon rule firing always and a missing organic
\* carbon being treated as below the cutoff; build_final_recommendation
\* never returns the name none with the source "none".
C28_AlwaysACandidate ==
    /\ SomeCandidate
    /\ (Suggested /\ rules_out.raised = "") =>
          /\ Len(OcEmitted) >= 1
          /\ OcMissing =>
                /\ NamesAndPriorities(OcEmitted) = << <<"FYM", 1>>, <<"Vermicompost", 2>> >>
                /\ HasReason(rules_out.primary_recommendations, "FYM", "oc_low_fym")

\* The candidate list is never empty and the name never none: one branch
\* of the organic-carbon rule is taken whatever the reading is.
OrganicRuleAlwaysFires ==
    /\ SomeCandidate
    /\ (Suggested /\ rules_out.raised = "") => Len(OcEmitted) >= 1

\* the arbitrator fell back on the rule engine alone
RulesOnly == Built /\ final.final_choice.source = "rules_only"

\* C29: in the rules-only fallback ties at priority 1 are broken by the
\* order the rules fired in, so whenever the nitrogen status is low the
\* final name is Urea, for every crop and every other soil value: no
\* phosphorus, potassium, organic or crop candidate at priority 1 comes
\* before it.
C29_LowNGivesUrea ==
    (RulesOnly /\ final.rules.npk_status.N = "low") =>
        LET recs == final.rules.primary_recommendations
        IN  /\ final.final_choice.name = Name("Urea")
            /\ recs[1].name = "Urea" /\ recs[1].priority = 1
            /\ \A i \in 2..Len(recs) : recs[i].name # "Urea"

\* C29 witness: nitrogen and phosphorus both low for rice; SSP or DAP
\* stands at priority 1 behind Urea, and the final name is Urea.
C29_Witness ==
    /\ RulesOnly
    /\ final.rules.npk_status.N = "low" /\ final.rules.npk_status.P = "low"
    /\ CropOf(record) = CropRice
    /\ \E i \in 2..Len(final.rules.primary_recommendations) :
          /\ final.rules.primary_recommendations[i].priority = 1
          /\ final.rules.primary_recommendations[i].name \in {"SSP", "DAP"}
    /\ final.final_choice.name = Name("Urea")

\* C30: no core call mutates its inputs or the shared configuration: after
\* any sequence of compute_soil_health, suggest_fertilizers and
\* build_final_recommendation calls the caller's record is unchanged, the
\* "input" field of the result equals the supplied record, and the
\* nutrient-profile table, the pH band table and the soil-health
\* thresholds hold their initial values.
C30_InputsAndConfigUnchanged ==
    /\ [](config = LoadedConfig)
    /\ [](Built => final.input = record)
    /\ [][record' = record /\ config' = config]_vars

\* C30 witness: a build returned the supplied record as "input" and a
\* candidate whose nutrients are the entry of the shared table, which
\* still holds what config.py defines.
C30_Witness ==
    /\ Built
    /\ final.input = record
    /\ record.crop.kind = "absent"
    /\ \E i \in 1..Len(final.rules.primary_recommendations) :
          LET c == final.rules.primary_recommendations[i]
          IN  /\ c.name = "Urea"
              /\ c.nutrients = config.FERTILIZER_NUTRIENT_PROFILE["Urea"]
    /\ config = LoadedConfig

=========================================================================
